---- MODULE Spec2Model ----
(***************************************************************************)
(* A model of read.py, the Streamlit EPUB reader: the classifier           *)
(* get_content_units, the window selector get_display_content, the         *)
(* renderer display_paragraphs and the script main, which Streamlit runs   *)
(* from top to bottom once per widget interaction.                         *)
(*                                                                         *)
(* Ordinals and positions are 0-based, as in the source; At(s, i) reads a  *)
(* Python list at index i.                                                 *)
(***************************************************************************)
EXTENDS Integers, Sequences, FiniteSets, TLC

VARIABLES
    uploaded_file,   \* the file in the sidebar uploader: NoFile, Unreadable or a book
    selected,        \* index of the option the chapter selectbox holds
    session_state,   \* st.session_state: current_paragraph and chapter (a function of the keys that are set)
    event,           \* the widget interaction that caused the latest run of the script
    shown,           \* the chapter index rendered by the latest run (NoChapter if none)
    changed,         \* the latest run rendered another chapter than the run before it
    before,          \* current_paragraph as the latest run found it (NotIndexed = key not set)
    soup,            \* the parsed markup of the chapter of the latest run
    content_units,   \* get_content_units(soup)
    display_units,   \* get_display_content's list, as positions into content_units
    para_idx,        \* get_display_content's second result (the clamped index)
    curr_para_pos,   \* display_paragraphs' curr_para_pos (NotIndexed if line 165 was not reached)
    focused,         \* indices into display_units whose unit took the highlight branch
    outcome          \* how the latest run ended

vars == <<uploaded_file, selected, session_state, event, shown, changed, before, soup,
          content_units, display_units, para_idx, curr_para_pos, focused, outcome>>

----------------------------------------------------------------------------
(* Bounds of the model *)

MaxClasses == 2      \* class markers on one node
MaxUnits == 5        \* top-level nodes of a chapter given to the window selector
MaxParas == 2        \* paragraphs of a chapter of an uploaded book
MaxChapters == 2     \* chapters of an uploaded book

----------------------------------------------------------------------------
(* Python lists *)

At(s, i) == s[i + 1]

Range(s) == {s[i] : i \in 1..Len(s)}

SeqsUpTo(S, n) == UNION {[1..k -> S] : k \in 0..n}

RECURSIVE Ascending(_)
\* the elements of a set of integers, in increasing order
Ascending(S) ==
    IF S = {} THEN <<>>
    ELSE LET m == CHOOSE x \in S : \A y \in S : x <= y
         IN <<m>> \o Ascending(S \ {m})

----------------------------------------------------------------------------
(* Markup nodes: bs4 Tag and NavigableString.                              *)
(* text is the node's visible text as get_text() gives it; " " stands for  *)
(* text made of whitespace only.                                           *)

Tag(name, class, text, contents) ==
    [kind |-> "Tag", name |-> name, class |-> class, text |-> text, contents |-> contents]

NavigableString(text) ==
    [kind |-> "NavigableString", name |-> "", class |-> {}, text |-> text, contents |-> <<>>]

strip(text) == IF text = " " THEN "" ELSE text

\* str(element): the node's markup; two nodes have the same markup exactly when
\* tag, attributes and content agree.
RECURSIVE str(_)
str(element) ==
    IF element.kind = "NavigableString" THEN <<element.text>>
    ELSE <<element.name, element.class, element.text,
           [i \in 1..Len(element.contents) |-> str(element.contents[i])]>>

HeadingTags == {"h1", "h2", "h3", "h4", "h5", "h6"}
ListTags == {"ul", "ol"}
SpacerClass == "spaceBreak1"
CaptionClass == "caption"
ImageClass == "centerImage"
HeadingClasses == {"chapterSubtitle", "chapterSubtitle1", "chapterOpenerText"}

Unit(type, element) == [type |-> type, content |-> str(element)]

RECURSIVE process_element(_)
RECURSIVE process_contents(_)

process_contents(contents) ==
    IF contents = <<>> THEN <<>>
    ELSE process_element(Head(contents)) \o process_contents(Tail(contents))

process_element(element) ==
    IF element.kind = "NavigableString" THEN
        IF strip(element.text) # "" THEN <<Unit("text", element)>> ELSE <<>>
    ELSE IF element.kind = "Tag" THEN
        IF element.name \in HeadingTags THEN <<Unit("heading", element)>>
        ELSE IF element.name = "p" THEN
            LET p_class == element.class
                is_empty == strip(element.text) = ""
            IN  IF is_empty \/ SpacerClass \in p_class THEN <<Unit("spacer", element)>>
                ELSE IF CaptionClass \in p_class THEN <<Unit("caption", element)>>
                ELSE IF ImageClass \in p_class THEN <<Unit("image", element)>>
                ELSE IF p_class \cap HeadingClasses # {} THEN <<Unit("heading", element)>>
                ELSE <<Unit("paragraph", element)>>
        ELSE IF element.name \in ListTags THEN <<Unit("list", element)>>
        ELSE IF element.name = "div" THEN process_contents(element.contents)
        ELSE IF element.name = "img" THEN <<Unit("image", element)>>
        ELSE process_contents(element.contents)
    ELSE <<>>

NotFound == [kind |-> "None"]

RECURSIVE find(_, _)
RECURSIVE find_in(_, _)
\* soup.find(names): the first descendant tag, in document order, named in names
find_in(contents, names) ==
    IF contents = <<>> THEN NotFound
    ELSE LET first == Head(contents)
             below == IF first.kind = "Tag" /\ first.name \in names THEN first
                      ELSE find(first, names)
         IN IF below # NotFound THEN below ELSE find_in(Tail(contents), names)

find(element, names) == find_in(element.contents, names)

get_content_units(soup_) ==
    LET body == find(soup_, {"body"})
    IN IF body # NotFound THEN process_contents(body.contents)
       ELSE process_contents(soup_.contents)

----------------------------------------------------------------------------
(* The window selector and the renderer *)

paragraph_indices(units) ==
    Ascending({i \in 0..(Len(units) - 1) : At(units, i).type = "paragraph"})

\* a variant that leaves out the paragraph before the current one
indices_to_show_from_current(paragraph_index, num_paragraphs) ==
    Ascending({paragraph_index + offset : offset \in {0, 1}}
              \cap 0..(num_paragraphs - 1))

indices_to_show(paragraph_index, num_paragraphs) ==
    Ascending({paragraph_index + offset : offset \in {-1, 0, 1}}
              \cap 0..(num_paragraphs - 1))

RECURSIVE headings_and_all(_, _)
\* a variant that keeps every unit it walks back over
headings_and_all(units, idx) ==
    IF idx >= 0 /\ At(units, idx).type \in {"heading", "image", "caption", "spacer"}
    THEN headings_and_all(units, idx - 1) \o <<idx>>
    ELSE <<>>

RECURSIVE headings(_, _)
\* lines 130-136: the headings before position idx + 1, walking back over
\* headings, images, captions and spacers
headings(units, idx) ==
    IF idx >= 0 /\ At(units, idx).type \in {"heading", "image", "caption", "spacer"}
    THEN headings(units, idx - 1)
         \o (IF At(units, idx).type = "heading" THEN <<idx>> ELSE <<>>)
    ELSE <<>>

RECURSIVE trailing_past_headings(_, _)
\* a variant that walks on over headings, up to the next paragraph
trailing_past_headings(units, idx) ==
    IF idx < Len(units) /\ At(units, idx).type # "paragraph"
    THEN (IF At(units, idx).type # "spacer" THEN <<idx>> ELSE <<>>)
         \o trailing_past_headings(units, idx + 1)
    ELSE <<>>

RECURSIVE trailing(_, _)
\* lines 145-149: the units from position idx on, up to the next paragraph or heading
trailing(units, idx) ==
    IF idx < Len(units) /\ At(units, idx).type \notin {"paragraph", "heading"}
    THEN (IF At(units, idx).type # "spacer" THEN <<idx>> ELSE <<>>)
         \o trailing(units, idx + 1)
    ELSE <<>>

RECURSIVE collect(_, _, _)
\* lines 126-149: the loop over indices_to_show
collect(units, positions, shows) ==
    IF shows = <<>> THEN <<>>
    ELSE LET paragraph_pos == At(positions, Head(shows))
         IN headings(units, paragraph_pos - 1)
            \o <<paragraph_pos>>
            \o trailing(units, paragraph_pos + 1)
            \o collect(units, positions, Tail(shows))

clamp(paragraph_index, num_paragraphs) ==
    IF paragraph_index < 0 THEN 0
    ELSE IF paragraph_index >= num_paragraphs THEN num_paragraphs - 1
    ELSE paragraph_index

get_display_content(paragraph_index, units) ==
    LET positions == paragraph_indices(units)
        num_paragraphs == Len(positions)
    IN IF num_paragraphs = 0
       THEN [display_units |-> <<>>, paragraph_index |-> paragraph_index]
       ELSE LET clamped == clamp(paragraph_index, num_paragraphs)
            IN [display_units |-> collect(units, positions,
                                          indices_to_show(clamped, num_paragraphs)),
                paragraph_index |-> clamped]

NotIndexed == -1

\* line 191: cu == content_units[curr_para_pos], a comparison of dicts by value
is_current(units, pos, curr) == At(units, pos) = At(units, curr)

display_paragraphs(display, paragraph_index, units) ==
    LET positions == paragraph_indices(units)
        n == Len(positions)
    IN IF n = 0
       THEN [outcome |-> "warning", curr_para_pos |-> NotIndexed, focused |-> {}]
       ELSE IF paragraph_index >= n \/ paragraph_index < -n
       THEN [outcome |-> "IndexError", curr_para_pos |-> NotIndexed, focused |-> {}]
       ELSE LET curr == At(positions, IF paragraph_index < 0 THEN paragraph_index + n
                                      ELSE paragraph_index)
            IN [outcome |-> "rendered",
                curr_para_pos |-> curr,
                focused |-> {k \in 0..(Len(display) - 1) :
                                /\ At(units, At(display, k)).type = "paragraph"
                                /\ is_current(units, At(display, k), curr)}]

----------------------------------------------------------------------------
(* The script: one run of main per widget interaction *)

NoFile == [kind |-> "NoFile"]
Unreadable == [kind |-> "Unreadable"]
Book(items) == [kind |-> "Book", items |-> items]
NoChapter == -1
NoSoup == Tag("[document]", {}, "", <<>>)

TitleTags == {"h1", "h2", "h3", "title"}

extract_chapter_title(item) ==
    LET title_tag == find(item.soup, TitleTags)
    IN IF title_tag # NotFound THEN strip(title_tag.text) ELSE item.name

chapter_titles(file) ==
    [i \in 1..Len(file.items) |-> extract_chapter_title(file.items[i])]

\* list.index: the first position holding the value
index(list, value) ==
    CHOOSE i \in 0..(Len(list) - 1) :
        /\ At(list, i) = value
        /\ \A j \in 0..(i - 1) : At(list, j) # value

\* a variant that sets the keys once and never again
init_session_once(state, selected_chapter) ==
    IF "current_paragraph" \notin DOMAIN state
    THEN [current_paragraph |-> 0, chapter |-> selected_chapter]
    ELSE state

\* lines 355-357
init_session(state, selected_chapter) ==
    IF "current_paragraph" \notin DOMAIN state \/ state.chapter # selected_chapter
    THEN [current_paragraph |-> 0, chapter |-> selected_chapter]
    ELSE state

\* a variant that steps back without the test of line 363
previous_unguarded(state) == [state EXCEPT !.current_paragraph = @ - 1]

\* lines 362-364
previous(state) ==
    IF state.current_paragraph > 0
    THEN [state EXCEPT !.current_paragraph = @ - 1]
    ELSE state

\* a variant that tests the next index against the number of paragraphs with <=
next_off_by_one(state, num_paragraphs) ==
    IF state.current_paragraph + 1 <= num_paragraphs
    THEN [state EXCEPT !.current_paragraph = @ + 1]
    ELSE state

\* lines 366-368
next(state, num_paragraphs) ==
    IF state.current_paragraph + 1 < num_paragraphs
    THEN [state EXCEPT !.current_paragraph = @ + 1]
    ELSE state

Stopped(state, how) ==
    [session_state |-> state, shown |-> NoChapter, soup |-> NoSoup,
     content_units |-> <<>>, display_units |-> <<>>, para_idx |-> NotIndexed,
     curr_para_pos |-> NotIndexed, focused |-> {}, outcome |-> how]

\* lines 370-374, with the session state the buttons left
render(chapter_index, soup_, units, state) ==
    LET got == get_display_content(state.current_paragraph, units)
        drawn == display_paragraphs(got.display_units, state.current_paragraph, units)
    IN [session_state |-> state, shown |-> chapter_index,
        soup |-> soup_, content_units |-> units,
        display_units |-> got.display_units, para_idx |-> got.paragraph_index,
        curr_para_pos |-> drawn.curr_para_pos, focused |-> drawn.focused,
        outcome |-> drawn.outcome]

\* lines 351-374, for the chapter's content units
navigate(chapter_index, soup_, units, selected_chapter, state, button) ==
    LET opened == init_session(state, selected_chapter)
    IN render(chapter_index, soup_, units,
              IF button = "Previous" THEN previous(opened)
              ELSE IF button = "Next" THEN next(opened, Len(paragraph_indices(units)))
              ELSE opened)

\* lines 344-349, for the chapter the selectbox names
parse(chapter_index, soup_, selected_chapter, state, button) ==
    navigate(chapter_index, soup_, get_content_units(soup_), selected_chapter, state, button)

\* lines 342-344, for the titles of the book
select(file, titles, sel, state, button) ==
    parse(index(titles, At(titles, sel)),
          At(file.items, index(titles, At(titles, sel))).soup,
          At(titles, sel), state, button)

\* main, run with the uploader holding file, the selectbox holding option sel
\* and button ("Previous", "Next" or "") clicked
main(file, sel, state, button) ==
    IF file = NoFile THEN Stopped(state, "info")
    ELSE IF file = Unreadable THEN Stopped(state, "read_error")
    ELSE IF file.items = <<>> THEN Stopped(state, "no_content")
    ELSE select(file, chapter_titles(file), sel, state, button)

\* The selectbox after the uploader's file changed: a selectbox whose options are
\* those of the run before keeps its option, any other starts at its first option.
selectbox(file, old_file, old_selected, was_shown) ==
    IF /\ was_shown
       /\ file.kind = "Book"
       /\ old_file.kind = "Book"
       /\ chapter_titles(file) = chapter_titles(old_file)
    THEN old_selected
    ELSE 0

\* one run of the script: the widgets' values, then what main leaves behind
Leave(r, file, sel, ev) ==
    /\ uploaded_file' = file
    /\ selected' = sel
    /\ event' = ev
    /\ session_state' = r.session_state
    /\ shown' = r.shown
    /\ changed' = (r.shown # NoChapter
                   /\ (file # uploaded_file \/ r.shown # shown))
    /\ before' = (IF "current_paragraph" \in DOMAIN session_state
                  THEN session_state.current_paragraph
                  ELSE NotIndexed)
    /\ soup' = r.soup
    /\ content_units' = r.content_units
    /\ display_units' = r.display_units
    /\ para_idx' = r.para_idx
    /\ curr_para_pos' = r.curr_para_pos
    /\ focused' = r.focused
    /\ outcome' = r.outcome

Run(file, sel, button, ev) ==
    Leave(main(file, sel, session_state, button), file, sel, ev)

----------------------------------------------------------------------------
(* The files a session uploads *)

ParaTexts == <<"a", "b", "c", "d">>
Titles == {"One", "Two"}

Doc(contents) == Tag("[document]", {}, "", contents)
Body(contents) == Tag("body", {}, "", contents)
P(text) == Tag("p", {}, text, <<>>)

\* a chapter: its title as an h1, then n paragraphs
ChapterSoup(title, n) ==
    Doc(<<Body(<<Tag("h1", {}, title, <<>>)>>
               \o [i \in 1..n |-> P(ParaTexts[((i - 1) % Len(ParaTexts)) + 1])])>>)

Items == {[name |-> "chapter.xhtml", soup |-> ChapterSoup(t, n)] :
             t \in Titles, n \in 0..MaxParas}

Files == {Unreadable} \cup {Book(items) : items \in SeqsUpTo(Items, MaxChapters)}

Blank ==
    /\ uploaded_file = NoFile
    /\ selected = 0
    /\ session_state = [k \in {} |-> 0]
    /\ event = ""
    /\ shown = NoChapter
    /\ changed = FALSE
    /\ before = NotIndexed
    /\ content_units = <<>>
    /\ display_units = <<>>
    /\ para_idx = NotIndexed
    /\ curr_para_pos = NotIndexed
    /\ focused = {}

Init ==
    /\ Blank
    /\ soup = NoSoup
    /\ outcome = "info"

Upload(file) ==
    /\ file \in Files
    /\ Run(file, selectbox(file, uploaded_file, selected, shown # NoChapter), "", "Upload")

RemoveFile ==
    /\ uploaded_file # NoFile
    /\ Run(NoFile, 0, "", "RemoveFile")

SelectChapter(i) ==
    /\ shown # NoChapter
    /\ i \in 0..(Len(uploaded_file.items) - 1)
    /\ i # selected
    /\ Run(uploaded_file, i, "", "SelectChapter")

Previous ==
    /\ shown # NoChapter
    /\ Run(uploaded_file, selected, "Previous", "Previous")

Next_ ==
    /\ shown # NoChapter
    /\ Run(uploaded_file, selected, "Next", "Next")

Next ==
    \/ \E file \in Files : Upload(file)
    \/ RemoveFile
    \/ \E i \in 0..(MaxChapters - 1) : SelectChapter(i)
    \/ Previous
    \/ Next_

Spec == Init /\ [][Next]_vars

\* a session that uploads one file and keeps it
FirstUpload(file) ==
    /\ uploaded_file = NoFile
    /\ Upload(file)

NextOneFile ==
    \/ \E file \in Files : FirstUpload(file)
    \/ \E i \in 0..(MaxChapters - 1) : SelectChapter(i)
    \/ Previous
    \/ Next_

SpecOneFile == Init /\ [][NextOneFile]_vars

----------------------------------------------------------------------------
(* The window selector and the renderer on their own: a chapter of up to   *)
(* MaxUnits nodes, shown at any index up to one past the last paragraph.   *)
(* The nodes: a heading, two paragraphs of different text, a spacer, an    *)
(* image (the selector treats a caption like an image) and a list (it      *)
(* treats a text unit like a list).                                        *)

WindowNodes ==
    { Tag("h2", {}, "t", <<>>),
      P("a"),
      P("b"),
      P(""),
      Tag("img", {}, "", <<>>),
      Tag("ul", {}, "l", <<>>) }

WindowSoups == {Doc(<<Body(nodes)>>) : nodes \in SeqsUpTo(WindowNodes, MaxUnits)}

InitWindow ==
    /\ Blank
    /\ soup \in WindowSoups
    /\ outcome = "parsed"

\* lines 371-374 for the chapter's units and a stored index
Show(units, paragraph_index) ==
    /\ paragraph_index <= Len(paragraph_indices(units))
    /\ Leave(render(NoChapter, soup, units, [current_paragraph |-> paragraph_index]),
             NoFile, 0, "Display")

Display(paragraph_index) ==
    /\ outcome = "parsed"
    /\ Show(get_content_units(soup), paragraph_index)

NextWindow == \E paragraph_index \in 0..MaxUnits : Display(paragraph_index)

SpecWindow == InitWindow /\ [][NextWindow]_vars

----------------------------------------------------------------------------
(* The classifier on its own: one node of any tag, with up to MaxClasses   *)
(* class markers, with or without visible text, under a body or not.       *)

TagNames == HeadingTags \cup ListTags \cup {"p", "div", "img", "span"}
ClassMarkers == {SpacerClass, CaptionClass, ImageClass} \cup HeadingClasses
Classes == {c \in SUBSET ClassMarkers : Cardinality(c) <= MaxClasses}
Texts == {"", " ", "a"}
Image == Tag("img", {}, "", <<>>)

\* what a node may hold: nothing, an image, text, or a paragraph and text
Contents == { <<>>, <<Image>>, <<NavigableString("a")>>,
              <<P("a"), NavigableString(" ")>> }

Nodes ==
    {NavigableString(text) : text \in Texts}
    \cup {Tag(name, class, text, contents) :
             name \in TagNames, class \in Classes, text \in Texts, contents \in Contents}

ClassifySoups == {Doc(<<node>>) : node \in Nodes} \cup {Doc(<<Body(<<node>>)>>) : node \in Nodes}

InitClassify ==
    /\ Blank
    /\ soup \in ClassifySoups
    /\ outcome = "parsed"

Classify ==
    /\ outcome = "parsed"
    /\ content_units' = get_content_units(soup)
    /\ outcome' = "classified"
    /\ event' = "Classify"
    /\ UNCHANGED <<uploaded_file, selected, session_state, shown, changed, before, soup,
                   display_units, para_idx, curr_para_pos, focused>>

NextClassify == Classify

SpecClassify == InitClassify /\ [][NextClassify]_vars

\* the node a soup of ClassifySoups holds
Node ==
    IF find(soup, {"body"}) # NotFound
    THEN find(soup, {"body"}).contents[1]
    ELSE soup.contents[1]

----------------------------------------------------------------------------
(* What the properties speak of *)

Positions == paragraph_indices(content_units)
Count == Len(Positions)
Ordinal == session_state.current_paragraph
TypeAt(pos) == At(content_units, pos).type

Rendered == outcome = "rendered"
ChapterShown == shown # NoChapter

\* the ordinals the window is to span, and their positions
StartParaOrdinal == IF Ordinal - 1 > 0 THEN Ordinal - 1 ELSE 0
EndParaOrdinal == IF Ordinal + 1 < Count - 1 THEN Ordinal + 1 ELSE Count - 1
StartPos == At(Positions, StartParaOrdinal)
EndPos == At(Positions, EndParaOrdinal)

IsParagraphAt(pos) == TypeAt(pos) = "paragraph"
WindowParagraphs == SelectSeq(display_units, IsParagraphAt)

----------------------------------------------------------------------------
(* Navigation *)

\* C1: in a session on one uploaded file, whenever a chapter with at least one
\* paragraph is shown the cursor lies in 0..Count-1 and the run renders without
\* an error; Previous at 0 and Next at Count-1 leave the cursor where it was.
C1_CursorWithinChapter ==
    (ChapterShown /\ Count >= 1) =>
        /\ Ordinal \in 0..(Count - 1)
        /\ Rendered
        /\ (event = "Previous" /\ before = 0) => Ordinal = 0
        /\ (event = "Next" /\ before = Count - 1) => Ordinal = Count - 1

\* Next was clicked on the last of several paragraphs and the cursor stayed on it
C1_NextAtLastParagraph ==
    /\ ChapterShown
    /\ Count >= 2
    /\ event = "Next"
    /\ before = Count - 1
    /\ Ordinal = Count - 1

\* C2: when a SelectChapter run shows another chapter than the run before it, the
\* cursor is 0 in that run, and the paragraph looked up (if the chapter has one) is
\* the first.
C2_SelectChapterResetsCursor ==
    (event = "SelectChapter" /\ changed) =>
        /\ Ordinal = 0
        /\ Count >= 1 => curr_para_pos = At(Positions, 0)

\* another chapter was selected while the cursor was past the first paragraph
C2_SelectedAwayFromLaterParagraph ==
    /\ event = "SelectChapter"
    /\ changed
    /\ before > 0
    /\ Count >= 1
    /\ Ordinal = 0

\* C7: a shown chapter without paragraphs gives an empty window, the warning that
\* no paragraphs were found, no paragraph position looked up, and cursor 0.
C7_EmptyChapterIsNoContent ==
    (ChapterShown /\ Count = 0) =>
        /\ display_units = <<>>
        /\ outcome = "warning"
        /\ curr_para_pos = NotIndexed
        /\ Ordinal = 0

\* Next was clicked on a chapter that has content units but no paragraph
C7_NextOnEmptyChapter ==
    /\ ChapterShown
    /\ Count = 0
    /\ content_units # <<>>
    /\ event = "Next"
    /\ outcome = "warning"

\* C9: whenever a chapter with at least one paragraph is shown, the stored cursor
\* display_paragraphs indexes with is within 0..Count-1 (no IndexError).
C9_StoredCursorIndexesParagraph ==
    (ChapterShown /\ Count >= 1) =>
        /\ Ordinal \in 0..(Count - 1)
        /\ outcome # "IndexError"

----------------------------------------------------------------------------
(* The window *)

\* C3: the paragraphs of a rendered window are those of ordinals
\* max(o-1,0)..min(o+1,n-1), each once, in increasing order.
C3_WindowParagraphs ==
    Rendered =>
        WindowParagraphs =
            [k \in 1..(EndParaOrdinal - StartParaOrdinal + 1) |->
                At(Positions, StartParaOrdinal + k - 1)]

\* five paragraphs, cursor 3: the window's paragraphs are paragraphs 2, 3 and 4
C3_FiveParagraphsAtThree ==
    /\ Rendered
    /\ Count = 5
    /\ Ordinal = 3
    /\ WindowParagraphs = <<At(Positions, 2), At(Positions, 3), At(Positions, 4)>>

\* C4: in a rendered window exactly one unit is highlighted, the one at
\* Positions[Ordinal].
C4_OneFocusedUnit ==
    Rendered =>
        /\ \E k \in 0..(Len(display_units) - 1) : At(display_units, k) = At(Positions, Ordinal)
        /\ focused = {k \in 0..(Len(display_units) - 1) :
                         At(display_units, k) = At(Positions, Ordinal)}

\* C5: every heading and every list positioned between the first and the last
\* paragraph of a rendered window is in the window.
C5_HeadingsAndListsBetween ==
    Rendered =>
        \A pos \in StartPos..EndPos :
            TypeAt(pos) \in {"heading", "list"} => pos \in Range(display_units)

\* C6 as stated: a rendered window holds no unit before StartPos or after EndPos,
\* and for a chapter of one paragraph it is that paragraph alone.
C6_NothingOutsideSlice ==
    Rendered =>
        /\ \A pos \in Range(display_units) : StartPos <= pos /\ pos <= EndPos
        /\ Count = 1 => display_units = <<At(Positions, 0)>>

\* C6 as amended: a unit of the window before StartPos is a heading with nothing
\* but headings, images, captions and spacers between it and StartPos; a unit
\* after EndPos is no paragraph, heading or spacer and has no paragraph or heading
\* between EndPos and it.
C6_OnlyAttachedUnitsOutside ==
    Rendered =>
        \A pos \in Range(display_units) :
            /\ pos < StartPos =>
                  /\ TypeAt(pos) = "heading"
                  /\ \A j \in (pos + 1)..(StartPos - 1) :
                        TypeAt(j) \in {"heading", "image", "caption", "spacer"}
            /\ pos > EndPos =>
                  /\ TypeAt(pos) \notin {"paragraph", "heading", "spacer"}
                  /\ \A j \in (EndPos + 1)..(pos - 1) :
                        TypeAt(j) \notin {"paragraph", "heading"}

\* a window of a one-paragraph chapter with a unit before and a unit after it
C6_UnitsOnBothSides ==
    /\ Rendered
    /\ Count = 1
    /\ \E pos \in Range(display_units) : pos < StartPos
    /\ \E pos \in Range(display_units) : pos > EndPos

\* C10: the units of a rendered window are in strictly increasing position.
C10_WindowInDocumentOrder ==
    Rendered =>
        \A i, j \in 1..Len(display_units) :
            i < j => display_units[i] < display_units[j]

\* between two paragraphs of the window lie a unit the forward scan of the first
\* takes and a heading the backward scan of the second takes, over an image that
\* both scans walk across
C10_GapScannedFromBothSides ==
    /\ Rendered
    /\ \E i \in 1..(Len(display_units) - 3) :
          /\ TypeAt(display_units[i]) = "paragraph"
          /\ TypeAt(display_units[i + 1]) = "list"
          /\ TypeAt(display_units[i + 2]) = "heading"
          /\ TypeAt(display_units[i + 3]) = "paragraph"
          /\ \E pos \in (display_units[i + 2] + 1)..(display_units[i + 3] - 1) :
                TypeAt(pos) = "image"

----------------------------------------------------------------------------
(* The classifier *)

IsImageNode(node) == node.name = "img" \/ (node.name = "p" /\ ImageClass \in node.class)

\* C8: a node with the caption marker becomes a caption unit, and any other image
\* node (an img, or a p marked as an image wrapper) becomes an image unit.
C8_CaptionThenImageFirst ==
    (outcome = "classified" /\ Node.kind = "Tag") =>
        /\ CaptionClass \in Node.class => content_units = <<Unit("caption", Node)>>
        /\ (CaptionClass \notin Node.class /\ IsImageNode(Node)) =>
              content_units = <<Unit("image", Node)>>

====
